---- MODULE Spec2Model ----
(***************************************************************************)
(* Model of the problem dashboard of app/routes/_index.tsx: the pending    *)
(* and applied filter specifications, the persisted filter record, the     *)
(* page number, the loaded problem array and the memoized query result.    *)
(*                                                                         *)
(* Conventions                                                             *)
(*  - a JavaScript string that the code inspects character by character    *)
(*    (titles, search term, rating inputs) is a sequence of one-character  *)
(*    strings; names that are only compared for equality (tag and subtag   *)
(*    names, difficulty, sort key) are TLA+ strings;                       *)
(*  - a JavaScript number that may be NaN is Num(n) or NaN;                *)
(*  - an optional property that is absent is a record field that is        *)
(*    missing from the record's DOMAIN;                                    *)
(*  - the problem records themselves are never written by the code, so the *)
(*    arrays hold the problems' ID values and Problem(id) is the record.   *)
(*    Rating is a float in the source; the model uses integer ratings.     *)
(***************************************************************************)
EXTENDS Integers, Sequences, FiniteSets, TLC

VARIABLES
    loaded,                     \* the array as the loader delivered it (never assigned again)
    problems,                   \* the `problems` array object of useLoaderData, in its current order
    appliedFilters,             \* useState<AppliedFilters>
    pendingFilters,             \* useState<PendingFilters>
    currentPage,                \* useState(1)
    storage,                    \* localStorage item 'leetcode-dashboard-filters'
    filteredAndSortedProblems,  \* value held by the useMemo of that name
    mounted,                    \* FALSE until the first render and the mount effect have run
    steps,                      \* number of user actions taken so far (bounded)
    availableSubtagsMemo,       \* value held by the useMemo named availableSubtags
    last,                       \* name of the last action taken
    before                      \* the filter state and page that action started from

vars == <<loaded, problems, appliedFilters, pendingFilters, currentPage,
          storage, filteredAndSortedProblems, mounted, steps, last, before,
          availableSubtagsMemo>>

----------------------------------------------------------------------------
(* Bounds *)

\* user actions explored per behaviour over the small dataset
MaxSteps == 4

\* user actions explored per behaviour over the large dataset
MaxStepsLarge == 4

\* number of problems of the large dataset
LargeSize == 120

----------------------------------------------------------------------------
(* JavaScript values *)

Num(n) == [num |-> n]

NaN == [nan |-> TRUE]

IsNaN(v) == "nan" \in DOMAIN v

\* JSON null, what JSON.stringify writes for NaN
JsonNull == [null |-> TRUE]

\* the value of localStorage.getItem for a missing key
NoItem == [missing |-> TRUE]

\* a > b on JavaScript numbers: false as soon as one side is NaN
NumGt(a, b) == ~IsNaN(a) /\ ~IsNaN(b) /\ a.num > b.num

NumLt(a, b) == ~IsNaN(a) /\ ~IsNaN(b) /\ a.num < b.num

NumGe(a, b) == ~IsNaN(a) /\ ~IsNaN(b) /\ a.num >= b.num

NumLe(a, b) == ~IsNaN(a) /\ ~IsNaN(b) /\ a.num <= b.num

Digits == <<"0", "1", "2", "3", "4", "5", "6", "7", "8", "9">>

IsDigit(c) == \E i \in 1..10 : Digits[i] = c

DigitVal(c) == (CHOOSE i \in 1..10 : Digits[i] = c) - 1

IsSpace(c) == c = " "

RECURSIVE NatToString(_)
NatToString(n) ==
    IF n < 10 THEN <<Digits[n + 1]>>
    ELSE NatToString(n \div 10) \o <<Digits[(n % 10) + 1]>>

\* Number.prototype.toString() of an integer
NumberToString(n) == IF n < 0 THEN <<"-">> \o NatToString(-n) ELSE NatToString(n)

RECURSIVE SkipSpaces(_)
SkipSpaces(s) ==
    IF s # <<>> /\ IsSpace(Head(s)) THEN SkipSpaces(Tail(s)) ELSE s

\* the value of the longest prefix of digits of s, continuing from acc;
\* <<found, value>> where found says whether any digit was read
RECURSIVE ReadDigits(_, _, _)
ReadDigits(s, acc, found) ==
    IF s # <<>> /\ IsDigit(Head(s))
    THEN ReadDigits(Tail(s), acc * 10 + DigitVal(Head(s)), TRUE)
    ELSE <<found, acc>>

\* parseInt(s) with the default radix on a string without a 0x prefix:
\* leading white space is skipped, one sign is read, then digits up to the
\* first character that is not a digit; NaN when no digit was read
parseInt(s) ==
    LET t == SkipSpaces(s)
        neg == t # <<>> /\ Head(t) = "-"
        signed == t # <<>> /\ Head(t) \in {"-", "+"}
        u == IF signed THEN Tail(t) ELSE t
        r == ReadDigits(u, 0, FALSE)
    IN  IF ~r[1] THEN NaN
        ELSE IF neg THEN Num(-r[2]) ELSE Num(r[2])

UpperCase == <<"A", "B", "C", "D", "E", "F", "G", "H", "I", "J", "K", "L", "M",
               "N", "O", "P", "Q", "R", "S", "T", "U", "V", "W", "X", "Y", "Z">>

LowerCase == <<"a", "b", "c", "d", "e", "f", "g", "h", "i", "j", "k", "l", "m",
               "n", "o", "p", "q", "r", "s", "t", "u", "v", "w", "x", "y", "z">>

LowerChar(c) ==
    IF \E i \in 1..26 : UpperCase[i] = c
    THEN LowerCase[CHOOSE i \in 1..26 : UpperCase[i] = c]
    ELSE c

\* String.prototype.toLowerCase
toLowerCase(s) == [i \in 1..Len(s) |-> LowerChar(s[i])]

\* String.prototype.includes
includes(s, t) ==
    \E i \in 0..(Len(s) - Len(t)) : SubSeq(s, i + 1, i + Len(t)) = t

\* collation weight of a character, letters compared without case first
PrimaryWeight(c) ==
    LET l == LowerChar(c)
    IN  IF c = " " THEN 0
        ELSE IF IsDigit(c) THEN 1 + DigitVal(c)
        ELSE IF \E i \in 1..26 : LowerCase[i] = l
             THEN 10 + (CHOOSE i \in 1..26 : LowerCase[i] = l)
        ELSE 37

IsUpper(c) == \E i \in 1..26 : UpperCase[i] = c

\* String.prototype.localeCompare under the default collation: the strings
\* are compared by their primary weights, and strings equal at that level by
\* the case of the first character where they differ, lower case first
localeCompare(a, b) ==
    LET n == IF Len(a) < Len(b) THEN Len(a) ELSE Len(b)
        diffP == {i \in 1..n : PrimaryWeight(a[i]) # PrimaryWeight(b[i])}
        diffC == {i \in 1..n : IsUpper(a[i]) # IsUpper(b[i])}
        firstP == CHOOSE i \in diffP : \A j \in diffP : i <= j
        firstC == CHOOSE i \in diffC : \A j \in diffC : i <= j
    IN  IF diffP # {}
        THEN (IF PrimaryWeight(a[firstP]) < PrimaryWeight(b[firstP]) THEN -1 ELSE 1)
        ELSE IF Len(a) # Len(b) THEN (IF Len(a) < Len(b) THEN -1 ELSE 1)
        ELSE IF diffC # {} THEN (IF IsUpper(b[firstC]) THEN -1 ELSE 1)
        ELSE 0

----------------------------------------------------------------------------
(* The dataset (app/data/problems.json is read through the loader; the      *)
(* records below have the shape of LeetCodeProblem)                         *)

\* number of hand-written problems at the head of the dataset
RichSize == 6

RichProblem(id) ==
    CASE id = 1 -> [ID |-> 1, Title |-> <<"T", "w", "o", " ", "S", "u", "m">>,
                    Rating |-> 1200,
                    problemDetails |-> [difficulty |-> "Easy"],
                    topicTags |-> <<[name |-> "A", subtags |-> <<"x", "y">>]>>]
      [] id = 2 -> [ID |-> 2, Title |-> <<"A", "d", "d">>,
                    Rating |-> 2200,
                    topicTags |-> <<>>]
      [] id = 3 -> [ID |-> 3, Title |-> <<"S", "u", "m", " ", "T", "r", "e", "e">>,
                    Rating |-> 1800,
                    problemDetails |-> [difficulty |-> "Medium"],
                    topicTags |-> <<[name |-> "B", subtags |-> <<"y", "z">>]>>]
      [] id = 4 -> [ID |-> 4, Title |-> <<"a", "d", "d">>,
                    Rating |-> 1200,
                    problemDetails |-> [difficulty |-> "Hard"],
                    topicTags |-> <<[name |-> "A"], [name |-> "B", subtags |-> <<"z">>]>>]
      [] id = 5 -> [ID |-> 5, Title |-> <<"Z", "e", "r", "o">>,
                    Rating |-> 4200,
                    problemDetails |-> [difficulty |-> "Hard"]]
      [] OTHER  -> [ID |-> 6, Title |-> <<"S", "u", "m", " ", "1", "2">>,
                    Rating |-> -50,
                    problemDetails |-> [difficulty |-> "Medium"],
                    topicTags |-> <<[name |-> "A", subtags |-> <<"x">>]>>]

\* the generated problems that follow them: ratings repeat, one in three has
\* no problemDetails, one in four carries tag A
FillerProblem(id) ==
    LET base == [ID |-> id, Title |-> <<"P">> \o NumberToString(id),
                 Rating |-> 1000 + ((id * 37) % 11) * 100]
        withDiff == IF id % 3 = 0 THEN base @@ [problemDetails |-> [difficulty |-> "Easy"]]
                    ELSE IF id % 3 = 1 THEN base @@ [problemDetails |-> [difficulty |-> "Medium"]]
                    ELSE base
    IN  IF id % 4 = 0
        THEN withDiff @@ [topicTags |-> <<[name |-> "A", subtags |-> <<"x">>]>>]
        ELSE withDiff

\* the records of the data file, by ID
ProblemTable ==
    [id \in 1..LargeSize |-> IF id <= RichSize THEN RichProblem(id) ELSE FillerProblem(id)]

Problem(id) == ProblemTable[id]

\* the small dataset in the order of the data file (not sorted by rating)
SmallData == <<3, 1, 5, 2, 4, 6>>

\* the large dataset in the order of the data file
LargeData == [i \in 1..LargeSize |-> i]

----------------------------------------------------------------------------
(* Initial values of the component state *)

pageSize == 50

InitialApplied ==
    [searchTerm |-> <<>>, difficulty |-> "all", tags |-> {}, subtags |-> {},
     ratingMin |-> Num(0), ratingMax |-> Num(4000),
     sortBy |-> "rating-asc"]

InitialPending ==
    [searchTerm |-> <<>>, difficulty |-> "all", selectedTags |-> {},
     selectedSubtags |-> {}, ratingMin |-> <<>>, ratingMax |-> <<>>,
     sortBy |-> "rating-asc"]

----------------------------------------------------------------------------
(* Facet extractor *)

HasTags(p) == "topicTags" \in DOMAIN p

HasSubtags(tag) == "subtags" \in DOMAIN tag

Range(s) == {s[i] : i \in 1..Len(s)}

\* computedData.allTags, as a set
allTags(arr) ==
    UNION {{Problem(id).topicTags[i].name : i \in 1..Len(Problem(id).topicTags)} :
           id \in {x \in Range(arr) : HasTags(Problem(x))}}

\* availableSubtags, as a set
availableSubtags(arr, selectedTags) ==
    IF Cardinality(selectedTags) = 0 THEN {}
    ELSE UNION {UNION {Range(Problem(id).topicTags[i].subtags) :
                       i \in {j \in 1..Len(Problem(id).topicTags) :
                                /\ Problem(id).topicTags[j].name \in selectedTags
                                /\ HasSubtags(Problem(id).topicTags[j])}} :
                id \in {x \in Range(arr) : HasTags(Problem(x))}}

\* UTF-16 code unit of a character
CodeUnit(c) ==
    IF c = " " THEN 32
    ELSE IF c = "-" THEN 45
    ELSE IF IsDigit(c) THEN 48 + DigitVal(c)
    ELSE IF IsUpper(c) THEN 64 + (CHOOSE i \in 1..26 : UpperCase[i] = c)
    ELSE 96 + (CHOOSE i \in 1..26 : LowerCase[i] = c)

\* the <<k, i, j>> at which the memo calls subtagsSet.add: problem arr[k],
\* its tag i with a selected name, subtag j of that tag
insertions(arr, selectedTags) ==
    UNION {UNION {{<<k, i, j>> : j \in 1..Len(Problem(arr[k]).topicTags[i].subtags)} :
                  i \in {t \in 1..Len(Problem(arr[k]).topicTags) :
                           /\ Problem(arr[k]).topicTags[t].name \in selectedTags
                           /\ HasSubtags(Problem(arr[k]).topicTags[t])}} :
           k \in {x \in 1..Len(arr) : HasTags(Problem(arr[x]))}}

\* the forEach loops reach insertion a before insertion b
insertedBefore(a, b) ==
    \/ a[1] < b[1]
    \/ a[1] = b[1] /\ a[2] < b[2]
    \/ a[1] = b[1] /\ a[2] = b[2] /\ a[3] < b[3]

RECURSIVE enumerate(_)
\* the members of a finite set in some order
enumerate(set) ==
    IF set = {} THEN <<>>
    ELSE LET m == CHOOSE x \in set : TRUE IN <<m>> \o enumerate(set \ {m})

\* Array.from(subtagsSet): a Set holds each value once, in the order of its
\* first insertion
subtagsSet(arr, selectedTags) ==
    LET ins == insertions(arr, selectedTags)
        name(a) == Problem(arr[a[1]]).topicTags[a[2]].subtags[a[3]]
        first == {a \in ins : \A b \in ins : name(b) = name(a) => ~insertedBefore(b, a)}
        ordered == SortSeq(enumerate(first), insertedBefore)
    IN  [n \in 1..Len(ordered) |-> name(ordered[n])]

\* Array.prototype.sort without a comparator: ascending by code units; the
\* names of the dataset are one character long
defaultSort(names) ==
    SortSeq(names, LAMBDA a, b : CodeUnit(a) < CodeUnit(b))

\* the availableSubtags memo returning Array.from(subtagsSet) unsorted
availableSubtagsArray_Unsorted(arr, selectedTags) ==
    IF Cardinality(selectedTags) = 0 THEN <<>>
    ELSE subtagsSet(arr, selectedTags)

\* the array returned by the body of the availableSubtags memo
availableSubtagsArray(arr, selectedTags) ==
    IF Cardinality(selectedTags) = 0 THEN <<>>
    ELSE defaultSort(subtagsSet(arr, selectedTags))

----------------------------------------------------------------------------
(* Query engine *)

\* the search test comparing the lowered term with the title as written
matchesSearch_TitleAsWritten(p, searchLower) ==
    \/ includes(p.Title, searchLower)
    \/ includes(NumberToString(p.ID), searchLower)

matchesSearch(p, searchLower) ==
    \/ includes(toLowerCase(p.Title), searchLower)
    \/ includes(NumberToString(p.ID), searchLower)

\* the difficulty without the fallback for a problem that declares none
effectiveDifficulty_NoFallback(p) ==
    IF "problemDetails" \in DOMAIN p THEN p.problemDetails.difficulty ELSE "undefined"

effectiveDifficulty(p) ==
    IF "problemDetails" \in DOMAIN p THEN p.problemDetails.difficulty ELSE "Hard"

\* the tag test keeping a problem that carries every selected tag
matchesTags_EverySelectedTag(p, tags) ==
    /\ HasTags(p)
    /\ \A t \in tags : \E i \in 1..Len(p.topicTags) : p.topicTags[i].name = t

\* the tag test letting a problem without topicTags pass
matchesTags_AbsentPasses(p, tags) ==
    \/ ~HasTags(p)
    \/ \E i \in 1..Len(p.topicTags) : p.topicTags[i].name \in tags

matchesTags(p, tags) ==
    /\ HasTags(p)
    /\ \E i \in 1..Len(p.topicTags) : p.topicTags[i].name \in tags

\* the subtag test looking at the first tag of the problem only
matchesSubtags_FirstTagOnly(p, subtags) ==
    /\ HasTags(p)
    /\ Len(p.topicTags) > 0
    /\ HasSubtags(p.topicTags[1])
    /\ \E j \in 1..Len(p.topicTags[1].subtags) : p.topicTags[1].subtags[j] \in subtags

matchesSubtags(p, subtags) ==
    /\ HasTags(p)
    /\ \E i \in 1..Len(p.topicTags) :
          /\ HasSubtags(p.topicTags[i])
          /\ \E j \in 1..Len(p.topicTags[i].subtags) : p.topicTags[i].subtags[j] \in subtags

\* ratingFilterActive testing for "not the default pair" instead
ratingFilterActive_NotDefault(f) ==
    f.ratingMin # Num(0) \/ f.ratingMax # Num(4000)

\* the rating stage running for every applied spec
ratingFilterActive_Always(f) == TRUE

\* the condition under which the rating stage runs
ratingFilterActive(f) ==
    NumGt(f.ratingMin, Num(0)) \/ NumLt(f.ratingMax, Num(4000))

\* the rating test keeping a problem that is within either bound
matchesRating_EitherBound(p, f) ==
    NumGe(Num(p.Rating), f.ratingMin) \/ NumLe(Num(p.Rating), f.ratingMax)

matchesRating(p, f) ==
    NumGe(Num(p.Rating), f.ratingMin) /\ NumLe(Num(p.Rating), f.ratingMax)

\* the comparator with descending id as a second key for equal ratings
compare_EqualRatingsByIdDescending(a, b, sortBy) ==
    CASE sortBy = "rating-desc" ->
            IF a.Rating # b.Rating THEN b.Rating - a.Rating ELSE b.ID - a.ID
      [] sortBy = "id-asc"      -> a.ID - b.ID
      [] sortBy = "id-desc"     -> b.ID - a.ID
      [] sortBy = "title-asc"   -> localeCompare(a.Title, b.Title)
      [] sortBy = "title-desc"  -> localeCompare(b.Title, a.Title)
      [] OTHER                  ->
            IF a.Rating # b.Rating THEN a.Rating - b.Rating ELSE b.ID - a.ID

\* the comparator whose default case orders by descending rating
compare_DefaultDescending(a, b, sortBy) ==
    CASE sortBy = "rating-desc" -> b.Rating - a.Rating
      [] sortBy = "rating-asc"  -> a.Rating - b.Rating
      [] sortBy = "id-asc"      -> a.ID - b.ID
      [] sortBy = "id-desc"     -> b.ID - a.ID
      [] sortBy = "title-asc"   -> localeCompare(a.Title, b.Title)
      [] sortBy = "title-desc"  -> localeCompare(b.Title, a.Title)
      [] OTHER                  -> b.Rating - a.Rating

\* the comparator handed to Array.prototype.sort
compare(a, b, sortBy) ==
    CASE sortBy = "rating-desc" -> b.Rating - a.Rating
      [] sortBy = "rating-asc"  -> a.Rating - b.Rating
      [] sortBy = "id-asc"      -> a.ID - b.ID
      [] sortBy = "id-desc"     -> b.ID - a.ID
      [] sortBy = "title-asc"   -> localeCompare(a.Title, b.Title)
      [] sortBy = "title-desc"  -> localeCompare(b.Title, a.Title)
      [] OTHER                  -> a.Rating - b.Rating

\* an unstable sort: elements that compare equal change places
sort_TiesReversed(arr, sortBy) ==
    SortSeq(arr, LAMBDA x, y : compare(Problem(x), Problem(y), sortBy) <= 0)

\* Array.prototype.sort with a comparator: a stable sort (ECMAScript 2019);
\* SortSeq inserts each element after the elements it is not less than
sort(arr, sortBy) ==
    SortSeq(arr, LAMBDA x, y : compare(Problem(x), Problem(y), sortBy) < 0)

\* TRUE when some stage ran Array.prototype.filter, so that `filtered` is a
\* new array; otherwise `filtered` is still the `problems` array itself
filteredIsCopy(f) ==
    \/ f.searchTerm # <<>>
    \/ f.difficulty # "all"
    \/ Cardinality(f.tags) > 0
    \/ Cardinality(f.subtags) > 0
    \/ ratingFilterActive(f)

\* the filter stages of the useMemo body, in the order of the code
filterStages(arr, f) ==
    LET s1 == IF f.searchTerm # <<>>
              THEN SelectSeq(arr, LAMBDA id : matchesSearch(Problem(id), toLowerCase(f.searchTerm)))
              ELSE arr
        s2 == IF f.difficulty # "all"
              THEN SelectSeq(s1, LAMBDA id : effectiveDifficulty(Problem(id)) = f.difficulty)
              ELSE s1
        s3 == IF Cardinality(f.tags) > 0
              THEN SelectSeq(s2, LAMBDA id : matchesTags(Problem(id), f.tags))
              ELSE s2
        s4 == IF Cardinality(f.subtags) > 0
              THEN SelectSeq(s3, LAMBDA id : matchesSubtags(Problem(id), f.subtags))
              ELSE s3
    IN  IF ratingFilterActive(f)
        THEN SelectSeq(s4, LAMBDA id : matchesRating(Problem(id), f))
        ELSE s4

\* one run of the filteredAndSortedProblems memo on the array arr:
\* .result is the returned copy, .problems is arr after the run (filtered.sort
\* sorts in place, and `filtered` is arr itself when no stage filtered)
evaluate(arr, f) ==
    LET sorted == sort(filterStages(arr, f), f.sortBy)
    IN  [result |-> sorted,
         problems |-> IF filteredIsCopy(f) THEN arr ELSE sorted]

\* Array.prototype.slice(start, end)
slice(arr, start, end) ==
    LET e == IF end < Len(arr) THEN end ELSE Len(arr)
    IN  IF start >= e THEN <<>> ELSE SubSeq(arr, start + 1, e)

\* the page computed from the page number multiplied by the page size
pageOf_StartsAtPageTimesSize(n) ==
    LET startIndex == n * pageSize
    IN  slice(filteredAndSortedProblems, startIndex, startIndex + pageSize)

\* the slice that paginatedProblems takes when the current page is n
pageOf(n) ==
    LET startIndex == (n - 1) * pageSize
    IN  slice(filteredAndSortedProblems, startIndex, startIndex + pageSize)

paginatedProblems == pageOf(currentPage)

\* Math.ceil(filteredAndSortedProblems.length / pageSize)
totalPages == (Len(filteredAndSortedProblems) + pageSize - 1) \div pageSize

----------------------------------------------------------------------------
(* Handlers, as functions of the state they read *)

\* newFilters without the copy of the sort key
newFilters_ForgetsSort(pending) ==
    [searchTerm |-> pending.searchTerm,
     difficulty |-> pending.difficulty,
     tags |-> pending.selectedTags,
     subtags |-> pending.selectedSubtags,
     ratingMin |-> IF pending.ratingMin # <<>> THEN parseInt(pending.ratingMin) ELSE Num(0),
     ratingMax |-> IF pending.ratingMax # <<>> THEN parseInt(pending.ratingMax) ELSE Num(4000),
     sortBy |-> "rating-asc"]

\* the newFilters object built by applyFilters
newFilters(pending) ==
    [searchTerm |-> pending.searchTerm,
     difficulty |-> pending.difficulty,
     tags |-> pending.selectedTags,
     subtags |-> pending.selectedSubtags,
     ratingMin |-> IF pending.ratingMin # <<>> THEN parseInt(pending.ratingMin) ELSE Num(0),
     ratingMax |-> IF pending.ratingMax # <<>> THEN parseInt(pending.ratingMax) ELSE Num(4000),
     sortBy |-> pending.sortBy]

\* JSON.stringify of a number, read back by JSON.parse: NaN becomes null
jsonNumber(v) == IF IsNaN(v) THEN JsonNull ELSE v

\* the object JSON.parse returns for the string applyFilters stored; the two
\* arrays are kept as the sets of their members
savedFilters(f) ==
    [searchTerm |-> f.searchTerm,
     difficulty |-> f.difficulty,
     tags |-> f.tags,
     subtags |-> f.subtags,
     ratingMin |-> jsonNumber(f.ratingMin),
     ratingMax |-> jsonNumber(f.ratingMax),
     sortBy |-> f.sortBy]

\* truthiness of a parsed JSON number or null
jsonTruthy(v) == v # JsonNull /\ v.num # 0

\* v || d for a string v: the empty string is falsy
orDefault(v, empty, d) == IF v # empty THEN v ELSE d

\* the object the mount effect hands to setAppliedFilters
loadApplied(filters) ==
    [searchTerm |-> orDefault(filters.searchTerm, <<>>, <<>>),
     difficulty |-> orDefault(filters.difficulty, "", "all"),
     tags |-> filters.tags,
     subtags |-> filters.subtags,
     ratingMin |-> IF jsonTruthy(filters.ratingMin) THEN filters.ratingMin ELSE Num(0),
     ratingMax |-> IF jsonTruthy(filters.ratingMax) THEN filters.ratingMax ELSE Num(4000),
     sortBy |-> orDefault(filters.sortBy, "", "rating-asc")]

\* the object the mount effect hands to setPendingFilters; a loaded bound is
\* a number there, which the input shows and parseInt reads as its decimal string
loadPending(filters) ==
    [searchTerm |-> orDefault(filters.searchTerm, <<>>, <<>>),
     difficulty |-> orDefault(filters.difficulty, "", "all"),
     selectedTags |-> filters.tags,
     selectedSubtags |-> filters.subtags,
     ratingMin |-> IF jsonTruthy(filters.ratingMin)
                   THEN NumberToString(filters.ratingMin.num) ELSE <<>>,
     ratingMax |-> IF jsonTruthy(filters.ratingMax)
                   THEN NumberToString(filters.ratingMax.num) ELSE <<>>,
     sortBy |-> orDefault(filters.sortBy, "", "rating-asc")]

\* the subtags toggleTag deletes for problem p: those of the first tag of p
\* named tagName (Array.prototype.find), when it lists subtags
subtagsOfFoundTag(p, tagName) ==
    IF ~HasTags(p) THEN {}
    ELSE LET hits == {i \in 1..Len(p.topicTags) : p.topicTags[i].name = tagName}
         IN  IF hits = {} THEN {}
             ELSE LET tag == p.topicTags[CHOOSE i \in hits : \A j \in hits : i <= j]
                  IN  IF HasSubtags(tag) THEN Range(tag.subtags) ELSE {}

\* toggleTagUpdate without the loop that deletes the tag's subtags
toggleTagUpdate_NoPurge(prev, tagName, arr) ==
    IF tagName \in prev.selectedTags
    THEN [prev EXCEPT !.selectedTags = @ \ {tagName}]
    ELSE [prev EXCEPT !.selectedTags = @ \cup {tagName}]

\* the updater toggleTag hands to setPendingFilters
toggleTagUpdate(prev, tagName, arr) ==
    IF tagName \in prev.selectedTags
    THEN [prev EXCEPT
            !.selectedTags = @ \ {tagName},
            !.selectedSubtags =
                @ \ UNION {subtagsOfFoundTag(Problem(id), tagName) : id \in Range(arr)}]
    ELSE [prev EXCEPT !.selectedTags = @ \cup {tagName}]

\* the updater toggleSubtag hands to setPendingFilters
toggleSubtagUpdate(prev, subtagName) ==
    IF subtagName \in prev.selectedSubtags
    THEN [prev EXCEPT !.selectedSubtags = @ \ {subtagName}]
    ELSE [prev EXCEPT !.selectedSubtags = @ \cup {subtagName}]

\* newApplied of removeAppliedFilter
removeFromApplied(applied, type, value) ==
    CASE type = "search"     -> [applied EXCEPT !.searchTerm = <<>>]
      [] type = "difficulty" -> [applied EXCEPT !.difficulty = "all"]
      [] type = "tag"        -> [applied EXCEPT !.tags = @ \ {value}]
      [] type = "subtag"     -> [applied EXCEPT !.subtags = @ \ {value}]
      [] type = "rating"     -> [applied EXCEPT !.ratingMin = Num(0), !.ratingMax = Num(4000)]
      [] OTHER               -> applied

\* newPending of a removeAppliedFilter that leaves the rating inputs as typed
removeFromPending_KeepsRatingInputs(pending, type, value) ==
    CASE type = "search"     -> [pending EXCEPT !.searchTerm = <<>>]
      [] type = "difficulty" -> [pending EXCEPT !.difficulty = "all"]
      [] type = "tag"        -> [pending EXCEPT !.selectedTags = @ \ {value}]
      [] type = "subtag"     -> [pending EXCEPT !.selectedSubtags = @ \ {value}]
      [] OTHER               -> pending

\* newPending of removeAppliedFilter
removeFromPending(pending, type, value) ==
    CASE type = "search"     -> [pending EXCEPT !.searchTerm = <<>>]
      [] type = "difficulty" -> [pending EXCEPT !.difficulty = "all"]
      [] type = "tag"        -> [pending EXCEPT !.selectedTags = @ \ {value}]
      [] type = "subtag"     -> [pending EXCEPT !.selectedSubtags = @ \ {value}]
      [] type = "rating"     -> [pending EXCEPT !.ratingMin = <<>>, !.ratingMax = <<>>]
      [] OTHER               -> pending

\* the applied-filter badge of (type, value) is rendered
badgeShown(applied, type, value) ==
    CASE type = "search"     -> applied.searchTerm # <<>>
      [] type = "difficulty" -> applied.difficulty # "all"
      [] type = "tag"        -> value \in applied.tags
      [] type = "subtag"     -> value \in applied.subtags
      [] type = "rating"     -> ratingFilterActive(applied)
      [] OTHER               -> FALSE

----------------------------------------------------------------------------
(* Actions *)

StepLimit == IF loaded = LargeData THEN MaxStepsLarge ELSE MaxSteps

CanAct == mounted /\ steps < StepLimit

\* the filter state and page an action starts from
Snapshot ==
    [pending |-> pendingFilters, applied |-> appliedFilters, page |-> currentPage]

\* a user action named n was taken
Took(n) == steps' = steps + 1 /\ last' = n /\ before' = Snapshot

\* setAppliedFilters(f) followed by the render it causes: the memo runs again
SetAppliedAndRender(f) ==
    LET e == evaluate(problems, f)
    IN  /\ appliedFilters' = f
        /\ filteredAndSortedProblems' = e.result
        /\ problems' = e.problems

\* the availableSubtags memo runs again in the render after a handler that
\* put a new Set object into pendingFilters.selectedTags; it runs before the
\* filteredAndSortedProblems memo of that render sorts the array
RecomputeSubtags(arr) ==
    availableSubtagsMemo' = availableSubtagsArray(arr, pendingFilters'.selectedTags)

\* first render of Index with the initial state, then the mount effect that
\* loads the saved filters, then the render that the effect causes
Mount ==
    /\ ~mounted
    /\ mounted' = TRUE
    /\ LET first == evaluate(problems, appliedFilters)
       IN  IF storage # NoItem
           THEN LET f == loadApplied(storage)
                    e == evaluate(first.problems, f)
                IN  /\ appliedFilters' = f
                    /\ pendingFilters' = loadPending(storage)
                    /\ filteredAndSortedProblems' = e.result
                    /\ problems' = e.problems
                    /\ RecomputeSubtags(first.problems)
           ELSE /\ filteredAndSortedProblems' = first.result
                /\ problems' = first.problems
                /\ UNCHANGED <<appliedFilters, pendingFilters>>
                /\ RecomputeSubtags(problems)
    /\ last' = "Mount"
    /\ before' = Snapshot
    /\ UNCHANGED <<loaded, currentPage, storage, steps>>

\* the user reloads the page: the component state is built anew from its
\* initial values and the loader delivers the data again; localStorage stays
Reload ==
    /\ CanAct
    /\ mounted' = FALSE
    /\ problems' = loaded
    /\ appliedFilters' = InitialApplied
    /\ pendingFilters' = InitialPending
    /\ currentPage' = 1
    /\ filteredAndSortedProblems' = <<>>
    /\ availableSubtagsMemo' = <<>>
    /\ Took("Reload")
    /\ UNCHANGED <<loaded, storage>>

\* applyFilters without setCurrentPage(1)
applyFilters_KeepsPage ==
    /\ CanAct
    /\ SetAppliedAndRender(newFilters(pendingFilters))
    /\ storage' = savedFilters(newFilters(pendingFilters))
    /\ Took("applyFilters")
    /\ UNCHANGED <<loaded, pendingFilters, mounted, currentPage, availableSubtagsMemo>>

applyFilters ==
    /\ CanAct
    /\ SetAppliedAndRender(newFilters(pendingFilters))
    /\ currentPage' = 1
    /\ storage' = savedFilters(newFilters(pendingFilters))
    /\ Took("applyFilters")
    /\ UNCHANGED <<loaded, pendingFilters, mounted, availableSubtagsMemo>>

\* clearAllFilters without localStorage.removeItem
clearAllFilters_LeavesStorage ==
    /\ CanAct
    /\ pendingFilters' = InitialPending
    /\ SetAppliedAndRender(InitialApplied)
    /\ currentPage' = 1
    /\ RecomputeSubtags(problems)
    /\ Took("clearAllFilters")
    /\ UNCHANGED <<loaded, mounted, storage>>

clearAllFilters ==
    /\ CanAct
    /\ pendingFilters' = InitialPending
    /\ SetAppliedAndRender(InitialApplied)
    /\ currentPage' = 1
    /\ storage' = NoItem
    /\ RecomputeSubtags(problems)
    /\ Took("clearAllFilters")
    /\ UNCHANGED <<loaded, mounted>>

removeAppliedFilter(type, value) ==
    /\ CanAct
    /\ badgeShown(appliedFilters, type, value)
    /\ SetAppliedAndRender(removeFromApplied(appliedFilters, type, value))
    /\ pendingFilters' = removeFromPending(pendingFilters, type, value)
    /\ currentPage' = 1
    /\ IF type = "tag" THEN RecomputeSubtags(problems) ELSE UNCHANGED availableSubtagsMemo
    /\ Took("removeAppliedFilter")
    /\ UNCHANGED <<loaded, storage, mounted>>

\* EditPending that also goes back to the first page
EditPending_ResetsPage(p, n) ==
    /\ CanAct
    /\ p # pendingFilters
    /\ pendingFilters' = p
    /\ currentPage' = 1
    /\ Took(n)
    /\ UNCHANGED <<loaded, problems, appliedFilters, storage,
                   filteredAndSortedProblems, mounted>>

\* an edit of the filter form: only setPendingFilters is called
EditPending(p, n) ==
    /\ CanAct
    /\ p # pendingFilters
    /\ pendingFilters' = p
    /\ Took(n)
    /\ UNCHANGED <<loaded, problems, appliedFilters, currentPage, storage,
                   filteredAndSortedProblems, mounted>>

setSearchTerm(v) ==
    /\ v # pendingFilters.searchTerm
    /\ EditPending([pendingFilters EXCEPT !.searchTerm = v], "setSearchTerm")
    /\ UNCHANGED availableSubtagsMemo

setDifficulty(v) ==
    /\ v # pendingFilters.difficulty
    /\ EditPending([pendingFilters EXCEPT !.difficulty = v], "setDifficulty")
    /\ UNCHANGED availableSubtagsMemo

setSortBy(v) ==
    /\ v # pendingFilters.sortBy
    /\ EditPending([pendingFilters EXCEPT !.sortBy = v], "setSortBy")
    /\ UNCHANGED availableSubtagsMemo

setRatingMin(v) ==
    /\ v # pendingFilters.ratingMin
    /\ EditPending([pendingFilters EXCEPT !.ratingMin = v], "setRatingMin")
    /\ UNCHANGED availableSubtagsMemo

setRatingMax(v) ==
    /\ v # pendingFilters.ratingMax
    /\ EditPending([pendingFilters EXCEPT !.ratingMax = v], "setRatingMax")
    /\ UNCHANGED availableSubtagsMemo

toggleTag(tagName) ==
    /\ tagName \in allTags(problems)
    /\ EditPending(toggleTagUpdate(pendingFilters, tagName, problems), "toggleTag")
    /\ RecomputeSubtags(problems)

toggleSubtag(subtagName) ==
    /\ subtagName \in availableSubtags(problems, pendingFilters.selectedTags)
    /\ EditPending(toggleSubtagUpdate(pendingFilters, subtagName), "toggleSubtag")
    /\ UNCHANGED availableSubtagsMemo

PreviousPage ==
    /\ CanAct
    /\ totalPages > 1
    /\ currentPage # 1
    /\ currentPage' = (IF currentPage - 1 > 1 THEN currentPage - 1 ELSE 1)
    /\ Took("PreviousPage")
    /\ UNCHANGED <<loaded, problems, appliedFilters, pendingFilters, storage,
                   filteredAndSortedProblems, mounted, availableSubtagsMemo>>

NextPage ==
    /\ CanAct
    /\ totalPages > 1
    /\ currentPage # totalPages
    /\ currentPage' = (IF currentPage + 1 < totalPages THEN currentPage + 1 ELSE totalPages)
    /\ Took("NextPage")
    /\ UNCHANGED <<loaded, problems, appliedFilters, pendingFilters, storage,
                   filteredAndSortedProblems, mounted, availableSubtagsMemo>>

----------------------------------------------------------------------------
(* Specifications *)

InitWith(data) ==
    /\ loaded = data
    /\ problems = data
    /\ appliedFilters = InitialApplied
    /\ pendingFilters = InitialPending
    /\ currentPage = 1
    /\ storage = NoItem
    /\ filteredAndSortedProblems = <<>>
    /\ availableSubtagsMemo = <<>>
    /\ mounted = FALSE
    /\ steps = 0
    /\ last = "init"
    /\ before = [pending |-> InitialPending, applied |-> InitialApplied, page |-> 1]

TagNames == {"A", "B"}

SubtagNames == {"x", "y", "z"}

FilterTypes == {"search", "difficulty", "tag", "subtag", "rating"}

Difficulties == {"all", "Easy", "Medium", "Hard"}

SortKeys == {"rating-asc", "rating-desc", "id-asc", "id-desc", "title-asc", "title-desc"}

\* what the user types into the search box
SearchInputs == {<<>>, <<"S", "u", "m">>}

\* what the user types into the rating boxes
RatingInputs == {<<>>, <<"0">>, <<"a", "b", "c">>, <<"1", "5", "0", "0">>,
                 <<"4", "1", "0", "0">>, <<"-", "5">>}

Init == InitWith(SmallData)

\* the session over the small dataset; it has a single page, so the paging
\* buttons are never rendered
Next ==
    \/ Mount
    \/ Reload
    \/ applyFilters
    \/ clearAllFilters
    \/ \E t \in FilterTypes, v \in TagNames \cup SubtagNames : removeAppliedFilter(t, v)
    \/ \E v \in SearchInputs : setSearchTerm(v)
    \/ \E v \in Difficulties : setDifficulty(v)
    \/ \E v \in SortKeys : setSortBy(v)
    \/ \E v \in RatingInputs : setRatingMin(v)
    \/ \E v \in RatingInputs : setRatingMax(v)
    \/ \E t \in TagNames : toggleTag(t)
    \/ \E s \in SubtagNames : toggleSubtag(s)

Spec == Init /\ [][Next]_vars

\* inputs of the session over the large dataset
LargeDifficulties == {"all", "Hard"}

LargeSortKeys == {"rating-asc", "id-desc"}

LargeRatingInputs == {<<>>, <<"1", "5", "0", "0">>}

InitLarge == InitWith(LargeData)

\* the session over the large dataset, with the paging buttons
NextLarge ==
    \/ Mount
    \/ Reload
    \/ applyFilters
    \/ clearAllFilters
    \/ \E t \in FilterTypes, v \in TagNames \cup SubtagNames : removeAppliedFilter(t, v)
    \/ \E v \in SearchInputs : setSearchTerm(v)
    \/ \E v \in LargeDifficulties : setDifficulty(v)
    \/ \E v \in LargeSortKeys : setSortBy(v)
    \/ \E v \in LargeRatingInputs : setRatingMin(v)
    \/ \E v \in LargeRatingInputs : setRatingMax(v)
    \/ \E t \in TagNames : toggleTag(t)
    \/ \E s \in SubtagNames : toggleSubtag(s)
    \/ PreviousPage
    \/ NextPage

SpecLarge == InitLarge /\ [][NextLarge]_vars

\* the three problems Two Sum, Add and Sum Tree, in id order
ExampleData == <<1, 2, 3>>

EngineDatasets == {SmallData, ExampleData}

EngineSearchTerms == {<<>>, <<"s", "u", "m">>, <<"S", "U", "M">>, <<"2">>}

EngineSubtagSets == {{}, {"x"}, {"z"}, {"x", "y"}}

\* <<ratingMin, ratingMax>> pairs of an applied spec
EngineBounds ==
    {<<0, 4000>>, <<3000, 1000>>, <<1500, 4000>>, <<0, 1500>>, <<-5, 4100>>, <<1200, 1200>>,
     <<0, -50>>}

\* sortBy values, one of them not a case of the switch
EngineSortKeys == SortKeys \cup {"submitted"}

\* the applied specs the memo is run with
EngineFilters ==
    {[searchTerm |-> t, difficulty |-> d, tags |-> tg, subtags |-> st,
      ratingMin |-> Num(b[1]), ratingMax |-> Num(b[2]), sortBy |-> k] :
        t \in EngineSearchTerms, d \in Difficulties, tg \in SUBSET TagNames,
        st \in EngineSubtagSets, b \in EngineBounds, k \in EngineSortKeys}

\* the number of times the memo is run on the same array with the same spec
MaxEvaluations == 2

InitEngine ==
    /\ loaded \in EngineDatasets
    /\ problems = loaded
    /\ appliedFilters \in EngineFilters
    /\ pendingFilters = InitialPending
    /\ currentPage = 1
    /\ storage = NoItem
    /\ filteredAndSortedProblems = <<>>
    /\ availableSubtagsMemo = <<>>
    /\ mounted = FALSE
    /\ steps = 0
    /\ last = "init"
    /\ before = [pending |-> InitialPending, applied |-> appliedFilters, page |-> 1]

\* one run of the filteredAndSortedProblems memo on the problems array as the
\* previous run left it
Evaluate ==
    /\ steps < MaxEvaluations
    /\ SetAppliedAndRender(appliedFilters)
    /\ mounted' = TRUE
    /\ Took("Evaluate")
    /\ UNCHANGED <<loaded, pendingFilters, currentPage, storage, availableSubtagsMemo>>

NextEngine == Evaluate

\* the query engine alone, over every dataset and applied spec above
SpecEngine == InitEngine /\ [][NextEngine]_vars

----------------------------------------------------------------------------
(* Properties *)

\* the <<id, i>> positions of the tags named t in the loaded dataset
TagPositions(t) ==
    {pos \in UNION {{<<id, i>> : i \in 1..Len(Problem(id).topicTags)} :
                    id \in {x \in Range(loaded) : HasTags(Problem(x))}} :
        Problem(pos[1]).topicTags[pos[2]].name = t}

\* every subtag listed under a tag named t somewhere in the loaded dataset
SubtagsUnder(t) ==
    UNION {Range(Problem(pos[1]).topicTags[pos[2]].subtags) :
           pos \in {q \in TagPositions(t) : HasSubtags(Problem(q[1]).topicTags[q[2]])}}

\* the subtags listed under t and under no other tag of the dataset
ExclusiveSubtags(t) ==
    SubtagsUnder(t) \ UNION {SubtagsUnder(u) : u \in allTags(loaded) \ {t}}

\* the last action was toggleTag on the selected tag t
DeselectedTag(t) ==
    /\ last = "toggleTag"
    /\ t \in before.pending.selectedTags
    /\ t \notin pendingFilters.selectedTags

\* C1 (as claimed): deselecting a tag T through toggleTag removes from the
\* pending subtag selection exactly the selected subtags that appear only
\* under T in the dataset; a subtag also listed under another tag stays.
C1_PurgesOnlyExclusiveSubtags ==
    \A t \in TagNames :
        DeselectedTag(t) =>
            pendingFilters.selectedSubtags =
                before.pending.selectedSubtags \ ExclusiveSubtags(t)

\* C1 (amended): deselecting a tag T through toggleTag removes from the
\* pending subtag selection every selected subtag that is listed under T in
\* some problem, shared with another tag or not, and no other subtag.
C1_PurgesAllSubtagsOfTag ==
    \A t \in TagNames :
        DeselectedTag(t) =>
            pendingFilters.selectedSubtags =
                before.pending.selectedSubtags \ SubtagsUnder(t)

\* C1 witness: A is deselected while B stays selected and the shared subtag
\* y was selected; y is gone afterwards
C1_Witness ==
    /\ DeselectedTag("A")
    /\ before.pending.selectedTags = {"A", "B"}
    /\ "y" \in before.pending.selectedSubtags
    /\ pendingFilters.selectedTags = {"B"}
    /\ "y" \notin pendingFilters.selectedSubtags

\* C2 (as claimed): the loaded dataset is never modified; the problems array
\* holds the same problems in the same order as when it was loaded.
C2_DatasetNeverModified == problems = loaded

\* C3: the current page is within 1..totalPages, or is 1 when the result is
\* empty.
C3_PageWithinRange ==
    IF totalPages = 0 THEN currentPage = 1 ELSE currentPage \in 1..totalPages

\* C3 witness: apply was pressed on a later page and the new result has at
\* most one page
C3_Witness ==
    /\ last = "applyFilters"
    /\ before.page > 1
    /\ totalPages <= 1
    /\ currentPage = 1

\* both applied rating bounds are integers
IntegerBounds(f) == ~IsNaN(f.ratingMin) /\ ~IsNaN(f.ratingMax)

\* the problems that pass the stages before the rating stage
PassingOtherStages(f) ==
    Range(filterStages(loaded, [f EXCEPT !.ratingMin = Num(0), !.ratingMax = Num(4000)]))

InBounds(id, f) ==
    f.ratingMin.num <= Problem(id).Rating /\ Problem(id).Rating <= f.ratingMax.num

\* C4 (as claimed): the rating stage is applied if and only if the applied
\* bounds differ from the default pair (0, 4000), and then keeps exactly the
\* problems with ratingMin <= rating <= ratingMax.
C4_RatingStageIffNotDefault ==
    (mounted /\ IntegerBounds(appliedFilters)) =>
        Range(filteredAndSortedProblems) =
            IF <<appliedFilters.ratingMin.num, appliedFilters.ratingMax.num>> # <<0, 4000>>
            THEN {id \in PassingOtherStages(appliedFilters) : InBounds(id, appliedFilters)}
            ELSE PassingOtherStages(appliedFilters)

\* C4 (amended): the rating stage is applied if and only if ratingMin > 0 or
\* ratingMax < 4000, and then keeps exactly the problems with
\* ratingMin <= rating <= ratingMax.
C4_RatingStageIffMinAboveOrMaxBelow ==
    (mounted /\ IntegerBounds(appliedFilters)) =>
        Range(filteredAndSortedProblems) =
            IF appliedFilters.ratingMin.num > 0 \/ appliedFilters.ratingMax.num < 4000
            THEN {id \in PassingOtherStages(appliedFilters) : InBounds(id, appliedFilters)}
            ELSE PassingOtherStages(appliedFilters)

\* C4 witness: bounds that are not the default pair, with ratingMin <= 0 and
\* ratingMax >= 4000, and a shown problem whose rating is outside them
C4_Witness ==
    /\ mounted
    /\ IntegerBounds(appliedFilters)
    /\ appliedFilters.ratingMin.num <= 0
    /\ appliedFilters.ratingMax.num >= 4000
    /\ <<appliedFilters.ratingMin.num, appliedFilters.ratingMax.num>> # <<0, 4000>>
    /\ \E id \in Range(filteredAndSortedProblems) : ~InBounds(id, appliedFilters)

\* a non-empty input that holds no digit, so that it denotes no number
NotNumeric(s) == s # <<>> /\ \A i \in 1..Len(s) : ~IsDigit(s[i])

\* the problems shown for the applied spec f
ResultIds(f) == Range(filterStages(loaded, f))

\* C5 (as claimed): after apply with a non-empty pending bound that is not
\* parseable as a number, the applied bound is its default (0 or 4000) and the
\* result is the one obtained with that bound left empty.
C5_UnparseableBoundFallsBack ==
    last = "applyFilters" =>
        /\ NotNumeric(before.pending.ratingMin) =>
              /\ appliedFilters.ratingMin = Num(0)
              /\ Range(filteredAndSortedProblems) =
                   ResultIds(newFilters([before.pending EXCEPT !.ratingMin = <<>>]))
        /\ NotNumeric(before.pending.ratingMax) =>
              /\ appliedFilters.ratingMax = Num(4000)
              /\ Range(filteredAndSortedProblems) =
                   ResultIds(newFilters([before.pending EXCEPT !.ratingMax = <<>>]))

\* C6 (as claimed): loading the record that apply saved reproduces the applied
\* spec, for every applied spec with integer rating bounds.
C6_SaveLoadRoundTrips ==
    (last = "applyFilters" /\ IntegerBounds(appliedFilters)) =>
        loadApplied(storage) = appliedFilters

\* C7 (as claimed): every subtag of the pending subtag selection is offered
\* for the pending tag selection.
C7_SelectedSubtagsAreOffered ==
    mounted =>
        pendingFilters.selectedSubtags \subseteq
            availableSubtags(problems, pendingFilters.selectedTags)

\* the integers whose decimal strings the bound inputs are compared with
CheckedIntegers == {-5, 0, 1500, 4100}

\* the applied bound for the pending bound string s, with default d
IsBoundOf(v, s, d) ==
    /\ s = <<>> => v = Num(d)
    /\ \A n \in CheckedIntegers : s = NumberToString(n) => v = Num(n)

EditNames ==
    {"setSearchTerm", "setDifficulty", "setSortBy", "setRatingMin", "setRatingMax",
     "toggleTag", "toggleSubtag"}

\* C8: apply sets the applied spec to a copy of the pending spec (rating
\* bounds are the integer values of the pending strings, 0/4000 for empty
\* strings) and the page to 1, leaves the pending spec as it was, and a later
\* pending edit leaves the applied tag and subtag sets as they were.
C8_ApplyCopiesPending ==
    /\ last = "applyFilters" =>
          /\ appliedFilters.searchTerm = before.pending.searchTerm
          /\ appliedFilters.difficulty = before.pending.difficulty
          /\ appliedFilters.sortBy = before.pending.sortBy
          /\ appliedFilters.tags = before.pending.selectedTags
          /\ appliedFilters.subtags = before.pending.selectedSubtags
          /\ IsBoundOf(appliedFilters.ratingMin, before.pending.ratingMin, 0)
          /\ IsBoundOf(appliedFilters.ratingMax, before.pending.ratingMax, 4000)
          /\ currentPage = 1
          /\ pendingFilters = before.pending
    /\ last \in EditNames =>
          /\ appliedFilters.tags = before.applied.tags
          /\ appliedFilters.subtags = before.applied.subtags

\* C8 witness: apply was pressed on a later page with a pending spec that
\* differed from the applied one in its sort key and a rating bound
C8_Witness ==
    /\ last = "applyFilters"
    /\ before.page > 1
    /\ before.pending.sortBy # before.applied.sortBy
    /\ before.pending.ratingMax # <<>>
    /\ appliedFilters.sortBy = before.pending.sortBy

\* C9: clear yields the initial state: default applied spec, default pending
\* spec, page 1 and no persisted record.
C9_ClearYieldsInitialState ==
    last = "clearAllFilters" =>
        /\ appliedFilters = InitialApplied
        /\ pendingFilters = InitialPending
        /\ currentPage = 1
        /\ storage = NoItem

\* C9 witness: clear was pressed on a later page, with applied and pending
\* specs that were not the defaults
C9_Witness ==
    /\ last = "clearAllFilters"
    /\ before.page > 1
    /\ before.applied # InitialApplied
    /\ before.pending # InitialPending
    /\ storage = NoItem

\* C10: an edit action changes the pending spec only: the applied spec, the
\* page, the persisted record, the dataset and the visible result stay.
C10_EditsChangePendingOnly ==
    [][(steps' = steps + 1 /\ last' \in EditNames) =>
          /\ appliedFilters' = appliedFilters
          /\ currentPage' = currentPage
          /\ storage' = storage
          /\ problems' = problems
          /\ filteredAndSortedProblems' = filteredAndSortedProblems
          /\ paginatedProblems' = paginatedProblems]_vars

\* C10 witness: an edit was made on a later page while a record was
\* persisted, and the pending spec differs from what was applied
C10_Witness ==
    /\ last \in EditNames
    /\ currentPage > 1
    /\ storage # NoItem
    /\ pendingFilters # before.pending
    /\ newFilters(pendingFilters) # appliedFilters

\* the last step was a run of the memo
Evaluated == last = "Evaluate"

\* C11: running the query a second time on the same dataset array with the
\* same applied spec returns the same items in the same order, hence the same
\* total count.
C11_ReevaluationIsIdentical ==
    [][(Evaluated /\ steps' = steps + 1 /\ appliedFilters' = appliedFilters)
          => filteredAndSortedProblems' = filteredAndSortedProblems]_vars

\* C11 witness: the memo ran twice with no filter, so that the first run
\* sorted the dataset array in place, and two problems share the rating
C11_Witness ==
    /\ Evaluated
    /\ steps = 2
    /\ ~filteredIsCopy(appliedFilters)
    /\ appliedFilters.sortBy = "rating-desc"
    /\ problems # loaded
    /\ filteredAndSortedProblems = <<5, 2, 3, 1, 4, 6>>

\* C12: with applied bounds ratingMin > ratingMax, the result is empty and
\* has no page; in particular for the bounds 3000 and 1000.
C12_InvertedBoundsGiveEmptyResult ==
    (/\ Evaluated
     /\ IntegerBounds(appliedFilters)
     /\ appliedFilters.ratingMin.num > appliedFilters.ratingMax.num)
        => /\ filteredAndSortedProblems = <<>>
           /\ totalPages = 0
           /\ paginatedProblems = <<>>

\* C12 witness: the bounds 3000 and 1000 and no other filter, over a dataset
\* with ratings below 1000 and above 3000
C12_Witness ==
    /\ Evaluated
    /\ loaded = SmallData
    /\ appliedFilters = [InitialApplied EXCEPT !.ratingMin = Num(3000),
                                               !.ratingMax = Num(1000)]
    /\ \E id \in Range(loaded) : Problem(id).Rating >= 3000
    /\ \E id \in Range(loaded) : Problem(id).Rating <= 1000
    /\ Len(filteredAndSortedProblems) = 0

RECURSIVE PagesUpTo(_)
\* the pages 1..n one after the other
PagesUpTo(n) == IF n = 0 THEN <<>> ELSE PagesUpTo(n - 1) \o pageOf(n)

\* C13: totalPages is the ceiling of totalCount / 50; every page holds at most
\* 50 items, every page but the last exactly 50, and the pages in order make
\* up the whole result; 120 items are shown as pages of 50, 50 and 20.
C13_PagesPartitionResult ==
    mounted =>
        LET totalCount == Len(filteredAndSortedProblems)
        IN  /\ (totalPages - 1) * 50 < totalCount
            /\ totalCount <= totalPages * 50
            /\ \A n \in 1..totalPages :
                  /\ Len(pageOf(n)) <= 50
                  /\ Len(pageOf(n)) >= 1
                  /\ n < totalPages => Len(pageOf(n)) = 50
            /\ PagesUpTo(totalPages) = filteredAndSortedProblems
            /\ totalCount = 120 =>
                  <<Len(pageOf(1)), Len(pageOf(2)), Len(pageOf(3))>> = <<50, 50, 20>>

\* C13 witness: the whole large dataset is the result, and the user is on the
\* third and last page, which is shorter than the page size
C13_Witness ==
    /\ mounted
    /\ last = "NextPage"
    /\ Len(filteredAndSortedProblems) = LargeSize
    /\ totalPages = 3
    /\ currentPage = 3
    /\ Len(paginatedProblems) = LargeSize - 100
    /\ Len(paginatedProblems) < pageSize

\* problem a may stand directly before problem b under the sort key
InOrder(a, b, sortBy) ==
    IF sortBy = "rating-desc" THEN a.Rating >= b.Rating
    ELSE IF sortBy = "id-asc" THEN a.ID <= b.ID
    ELSE IF sortBy = "id-desc" THEN a.ID >= b.ID
    ELSE IF sortBy = "title-asc" THEN localeCompare(a.Title, b.Title) <= 0
    ELSE IF sortBy = "title-desc" THEN localeCompare(a.Title, b.Title) >= 0
    ELSE a.Rating <= b.Rating

\* C14: the result is ordered by the applied sort key (rating, id or title,
\* ascending or descending), and under any other sort key it is the sequence
\* that rating-asc gives.
C14_ResultOrderedBySortKey ==
    Evaluated =>
        LET r == filteredAndSortedProblems
        IN  /\ \A i \in 1..(Len(r) - 1) :
                  InOrder(Problem(r[i]), Problem(r[i + 1]), appliedFilters.sortBy)
            /\ appliedFilters.sortBy \notin SortKeys =>
                  r = evaluate(problems, [appliedFilters EXCEPT !.sortBy = "rating-asc"]).result
            /\ (/\ loaded = SmallData
                /\ appliedFilters = [InitialApplied EXCEPT !.sortBy = "title-asc"])
                  => r = <<4, 2, 6, 3, 1, 5>>

\* C14 witness: a sort key that is no case of the switch and no filter; the
\* whole dataset is shown by ascending rating
C14_Witness ==
    /\ Evaluated
    /\ loaded = SmallData
    /\ appliedFilters = [InitialApplied EXCEPT !.sortBy = "submitted"]
    /\ filteredAndSortedProblems = <<6, 1, 4, 3, 2, 5>>

\* problems a and b have the same value of the sort key
SameKey(a, b, sortBy) ==
    IF sortBy \in {"id-asc", "id-desc"} THEN a.ID = b.ID
    ELSE IF sortBy \in {"title-asc", "title-desc"} THEN a.Title = b.Title
    ELSE a.Rating = b.Rating

\* the index of id in the sequence arr of distinct ids
PositionIn(arr, id) == CHOOSE i \in 1..Len(arr) : arr[i] = id

\* C15: the sort is stable: result items with equal sort keys stand in the
\* order they had in the sequence the run was given (the dataset array as it
\* was before the run, of which the filter stages keep the order).
C15_EqualKeysKeepInputOrder ==
    [][(steps' = steps + 1 /\ last' = "Evaluate") =>
          LET r == filteredAndSortedProblems'
          IN  \A i, j \in 1..Len(r) :
                  (i < j /\ SameKey(Problem(r[i]), Problem(r[j]), appliedFilters'.sortBy))
                      => PositionIn(problems, r[i]) < PositionIn(problems, r[j])]_vars

\* C15 witness: the problems tagged A sorted by rating; problems 1 and 4 have
\* the same rating and are shown in dataset order
C15_Witness ==
    /\ Evaluated
    /\ loaded = SmallData
    /\ appliedFilters = [InitialApplied EXCEPT !.tags = {"A"}]
    /\ Problem(1).Rating = Problem(4).Rating
    /\ PositionIn(loaded, 1) < PositionIn(loaded, 4)
    /\ filteredAndSortedProblems = <<6, 1, 4>>

\* the names of the tags of problem id; none when topicTags is absent
TagNamesOf(id) ==
    IF HasTags(Problem(id))
    THEN {Problem(id).topicTags[i].name : i \in 1..Len(Problem(id).topicTags)}
    ELSE {}

\* C16: with a non-empty applied tag set, the problems kept are those passing
\* the other stages with at least one tag in the set; a problem tagged A and
\* B is kept for {A}, {B} and {A, B}, a problem with none of the tags is not.
C16_TagStageKeepsAnySelectedTag ==
    (Evaluated /\ appliedFilters.tags # {}) =>
        /\ Range(filteredAndSortedProblems) =
              {id \in ResultIds([appliedFilters EXCEPT !.tags = {}]) :
                  TagNamesOf(id) \cap appliedFilters.tags # {}}
        /\ \A id \in Range(filteredAndSortedProblems) :
              TagNamesOf(id) \cap appliedFilters.tags # {}
        /\ \A id \in ResultIds([appliedFilters EXCEPT !.tags = {}]) :
              TagNamesOf(id) = {"A", "B"} => id \in Range(filteredAndSortedProblems)

\* C16 witness: both tags are applied; the problems shown are those tagged A
\* only, B only or both, and the problems with no tag are not shown
C16_Witness ==
    /\ Evaluated
    /\ loaded = SmallData
    /\ appliedFilters = [InitialApplied EXCEPT !.tags = {"A", "B"}]
    /\ TagNamesOf(1) = {"A"}
    /\ TagNamesOf(3) = {"B"}
    /\ TagNamesOf(4) = {"A", "B"}
    /\ Range(filteredAndSortedProblems) = {1, 3, 4, 6}

\* the subtags listed under the tags of problem id named in the set names
SubtagsOfTags(id, names) ==
    IF HasTags(Problem(id))
    THEN UNION {Range(Problem(id).topicTags[i].subtags) :
                i \in {j \in 1..Len(Problem(id).topicTags) :
                         /\ Problem(id).topicTags[j].name \in names
                         /\ HasSubtags(Problem(id).topicTags[j])}}
    ELSE {}

\* C17: with a non-empty applied subtag set, the problems kept are those
\* passing the other stages of which some tag, applied or not, lists a subtag
\* of the set; with both sets non-empty a kept problem passes both stages.
C17_SubtagStageIgnoresParentTag ==
    (Evaluated /\ appliedFilters.subtags # {}) =>
        /\ Range(filteredAndSortedProblems) =
              {id \in ResultIds([appliedFilters EXCEPT !.subtags = {}]) :
                  SubtagsOfTags(id, TagNamesOf(id)) \cap appliedFilters.subtags # {}}
        /\ appliedFilters.tags # {} =>
              \A id \in Range(filteredAndSortedProblems) :
                  /\ TagNamesOf(id) \cap appliedFilters.tags # {}
                  /\ SubtagsOfTags(id, TagNamesOf(id)) \cap appliedFilters.subtags # {}

\* C17 witness: tag A and subtag z are applied; problem 4 is shown, whose
\* subtag z is listed under its tag B and not under its tag A
C17_Witness ==
    /\ Evaluated
    /\ loaded = SmallData
    /\ appliedFilters = [InitialApplied EXCEPT !.tags = {"A"}, !.subtags = {"z"}]
    /\ "z" \in SubtagsOfTags(4, {"B"})
    /\ "z" \notin SubtagsOfTags(4, appliedFilters.tags)
    /\ filteredAndSortedProblems = <<4>>

\* problem id declares the difficulty d, or declares none and d is Hard
HasDifficulty(id, d) ==
    \/ "problemDetails" \in DOMAIN Problem(id) /\ Problem(id).problemDetails.difficulty = d
    \/ "problemDetails" \notin DOMAIN Problem(id) /\ d = "Hard"

\* C18: with a difficulty selector other than all, the problems kept are
\* those passing the other stages whose difficulty, taken as Hard when
\* absent, is the selector; with the selector all, no problem is dropped for
\* its difficulty.
C18_DifficultyStageWithHardFallback ==
    Evaluated =>
        LET others == ResultIds([appliedFilters EXCEPT !.difficulty = "all"])
        IN  IF appliedFilters.difficulty # "all"
            THEN Range(filteredAndSortedProblems) =
                    {id \in others : HasDifficulty(id, appliedFilters.difficulty)}
            ELSE Range(filteredAndSortedProblems) =
                    UNION {{id \in Range(loaded) :
                              /\ HasDifficulty(id, d)
                              /\ id \in ResultIds([appliedFilters EXCEPT !.difficulty = d])} :
                           d \in {"Easy", "Medium", "Hard"}}

\* C18 witness: the selector is Hard; problem 2, which declares no
\* difficulty, is shown with the problems that declare Hard
C18_Witness ==
    /\ Evaluated
    /\ loaded = SmallData
    /\ appliedFilters = [InitialApplied EXCEPT !.difficulty = "Hard"]
    /\ "problemDetails" \notin DOMAIN Problem(2)
    /\ Range(filteredAndSortedProblems) = {2, 4, 5}

\* the characters c and d are the same, or the same letter in two cases
SameIgnoringCase(c, d) ==
    c = d \/ \E i \in 1..26 : {c, d} = {UpperCase[i], LowerCase[i]}

\* the term t occurs in s at offset k, letters compared without case when fold
OccursAt(t, s, k, fold) ==
    /\ k + Len(t) <= Len(s)
    /\ \A n \in 1..Len(t) :
          IF fold THEN SameIgnoringCase(s[k + n], t[n]) ELSE s[k + n] = t[n]

\* problem id matches the search term t
MatchesTerm(id, t) ==
    \/ \E k \in 0..Len(Problem(id).Title) : OccursAt(t, Problem(id).Title, k, TRUE)
    \/ \E k \in 0..Len(NumberToString(Problem(id).ID)) :
          OccursAt(t, NumberToString(Problem(id).ID), k, FALSE)

\* C19: with a non-empty search term, the problems kept are those passing the
\* other stages whose title contains the term, compared without case, or
\* whose id in decimal contains the term; the empty term drops no problem;
\* over Two Sum, Add and Sum Tree the term sum gives the problems 1 and 3 in
\* this order.
C19_SearchMatchesTitleOrId ==
    Evaluated =>
        LET others == ResultIds([appliedFilters EXCEPT !.searchTerm = <<>>])
        IN  /\ Range(filteredAndSortedProblems) =
                  IF appliedFilters.searchTerm # <<>>
                  THEN {id \in others : MatchesTerm(id, appliedFilters.searchTerm)}
                  ELSE others
            /\ (/\ appliedFilters.searchTerm = <<>>
                /\ appliedFilters = [InitialApplied EXCEPT !.sortBy = appliedFilters.sortBy])
                  => Range(filteredAndSortedProblems) = Range(loaded)
            /\ (/\ loaded = ExampleData
                /\ appliedFilters = [InitialApplied EXCEPT !.searchTerm = <<"s", "u", "m">>])
                  => filteredAndSortedProblems = <<1, 3>>

\* C19 witness: the term 2 over the small dataset; problem 2 is shown for its
\* id and problem 6 for its title Sum 12
C19_Witness ==
    /\ Evaluated
    /\ loaded = SmallData
    /\ appliedFilters = [InitialApplied EXCEPT !.searchTerm = <<"2">>]
    /\ filteredAndSortedProblems = <<6, 2>>

\* the subtag names of the dataset in ascending order
SubtagsAscending == <<"x", "y", "z">>

\* C20: the offered subtags depend on the pending tag selection only: there
\* are none when no tag is selected, and otherwise they are the subtags
\* listed, in any problem, under a tag of the pending selection, each once
\* and in ascending order; this holds after every handler that changes the
\* pending tag selection and whatever the current order of the dataset array.
C20_OfferedSubtagsFollowPendingTags ==
    LET selected == pendingFilters.selectedTags
        expected == UNION {SubtagsUnder(t) : t \in selected}
    IN  /\ selected = {} => availableSubtagsMemo = <<>>
        /\ availableSubtagsMemo = SelectSeq(SubtagsAscending, LAMBDA n : n \in expected)

\* C20 witness: tag B was selected in addition to A after the first render
\* had reordered the dataset array; the three subtags are offered in
\* ascending order, y being listed under both tags
C20_Witness ==
    /\ last = "toggleTag"
    /\ before.pending.selectedTags = {"A"}
    /\ pendingFilters.selectedTags = {"A", "B"}
    /\ problems # loaded
    /\ "y" \in SubtagsUnder("A") \cap SubtagsUnder("B")
    /\ availableSubtagsMemo = <<"x", "y", "z">>

\* the problems of the dataset that have no topicTags, or only tags without
\* subtags
Untagged == {id \in Range(loaded) : TagNamesOf(id) = {}}

WithoutSubtags == {id \in Range(loaded) : SubtagsOfTags(id, TagNamesOf(id)) = {}}

\* problem id passes the search, difficulty and rating stages of spec f
PassesUntaggedStages(id, f) ==
    /\ f.searchTerm = <<>> \/ MatchesTerm(id, f.searchTerm)
    /\ f.difficulty = "all" \/ HasDifficulty(id, f.difficulty)
    /\ (f.ratingMin.num > 0 \/ f.ratingMax.num < 4000) => InBounds(id, f)

\* C21: a problem without topicTags and a tag without subtags count as empty
\* lists: they add nothing to the tag facet and to the offered subtags, the
\* problem is dropped by a non-empty applied tag set or subtag set and kept,
\* if it passes the other stages, when both are empty, and toggleTag over
\* such a dataset toggles the one tag and removes only subtags.
C21_AbsentListsCountAsEmpty ==
    /\ allTags(problems) = UNION {TagNamesOf(id) : id \in Range(loaded)}
    /\ Range(availableSubtagsMemo) =
          UNION {SubtagsOfTags(id, pendingFilters.selectedTags) : id \in Range(loaded)}
    /\ (mounted /\ IntegerBounds(appliedFilters)) =>
          /\ appliedFilters.tags # {} => Range(filteredAndSortedProblems) \cap Untagged = {}
          /\ appliedFilters.subtags # {} =>
                Range(filteredAndSortedProblems) \cap WithoutSubtags = {}
          /\ (appliedFilters.tags = {} /\ appliedFilters.subtags = {}) =>
                \A id \in Untagged \cup WithoutSubtags :
                    id \in Range(filteredAndSortedProblems)
                        <=> PassesUntaggedStages(id, appliedFilters)
    /\ last = "toggleTag" =>
          /\ \E t \in TagNames :
                \/ t \notin before.pending.selectedTags
                   /\ pendingFilters.selectedTags = before.pending.selectedTags \cup {t}
                \/ t \in before.pending.selectedTags
                   /\ pendingFilters.selectedTags = before.pending.selectedTags \ {t}
          /\ pendingFilters.selectedSubtags \subseteq before.pending.selectedSubtags

\* C21 witness: tag A is applied and then deselected through toggleTag, over
\* a dataset with a problem without topicTags, a problem with an empty tag
\* list and a tag A without subtags; the first two are not shown
C21_Witness ==
    /\ DeselectedTag("A")
    /\ appliedFilters.tags = {"A"}
    /\ ~HasTags(Problem(5))
    /\ Problem(2).topicTags = <<>>
    /\ \E i \in 1..Len(Problem(4).topicTags) :
          Problem(4).topicTags[i].name = "A" /\ ~HasSubtags(Problem(4).topicTags[i])
    /\ {2, 5} \subseteq Untagged
    /\ Range(filteredAndSortedProblems) = {1, 4, 6}

\* C22: under the default applied spec the result holds every problem of the
\* dataset once, those rated below 0 or above 4000 included, in
\* non-decreasing rating order.
C22_DefaultSpecShowsWholeDataset ==
    (mounted /\ appliedFilters = InitialApplied) =>
        /\ Len(filteredAndSortedProblems) = Len(loaded)
        /\ Range(filteredAndSortedProblems) = Range(loaded)
        /\ \A i \in 1..(Len(filteredAndSortedProblems) - 1) :
              Problem(filteredAndSortedProblems[i]).Rating
                  <= Problem(filteredAndSortedProblems[i + 1]).Rating

\* C22 witness: the filters were cleared after a rating filter had been
\* applied; the dataset has a rating below 0 and one above 4000, and both
\* problems are shown, first and last
C22_Witness ==
    /\ last = "clearAllFilters"
    /\ before.applied.ratingMax = Num(1500)
    /\ appliedFilters = InitialApplied
    /\ Len(filteredAndSortedProblems) = Len(loaded)
    /\ Problem(filteredAndSortedProblems[1]).Rating < 0
    /\ Problem(filteredAndSortedProblems[Len(loaded)]).Rating > 4000

\* the items shown for the applied spec f and page n by a run of the engine
\* on the dataset as loaded
ShownFromLoaded(f, n) ==
    LET r == evaluate(loaded, f).result
    IN  [i \in 1..(IF Len(r) - (n - 1) * 50 < 50
                   THEN (IF Len(r) - (n - 1) * 50 < 0 THEN 0 ELSE Len(r) - (n - 1) * 50)
                   ELSE 50) |-> r[(n - 1) * 50 + i]]

\* C23 (as claimed): the items shown depend only on the current applied spec,
\* the current page and the dataset as loaded: whatever specs were applied
\* before, they are the items, in the order, that a run of the engine on the
\* loaded dataset gives for the current applied spec and page.
C23_ResultIndependentOfHistory ==
    mounted => paginatedProblems = ShownFromLoaded(appliedFilters, currentPage)

\* the applied spec has the fields of the spec the action started from,
\* with the same values except for the fields named
AppliedSameExcept(fields) ==
    /\ DOMAIN appliedFilters = DOMAIN before.applied
    /\ \A k \in DOMAIN appliedFilters \ fields : appliedFilters[k] = before.applied[k]

PendingSameExcept(fields) ==
    /\ DOMAIN pendingFilters = DOMAIN before.pending
    /\ \A k \in DOMAIN pendingFilters \ fields : pendingFilters[k] = before.pending[k]

\* the filter state is the one the action started from with the filter
\* (type, value) removed from the applied and the pending spec
FilterRemoved(type, value) ==
    CASE type = "search" ->
            /\ before.applied.searchTerm # <<>>
            /\ appliedFilters.searchTerm = <<>> /\ pendingFilters.searchTerm = <<>>
            /\ AppliedSameExcept({"searchTerm"}) /\ PendingSameExcept({"searchTerm"})
      [] type = "difficulty" ->
            /\ before.applied.difficulty # "all"
            /\ appliedFilters.difficulty = "all" /\ pendingFilters.difficulty = "all"
            /\ AppliedSameExcept({"difficulty"}) /\ PendingSameExcept({"difficulty"})
      [] type = "tag" ->
            /\ value \in before.applied.tags
            /\ appliedFilters.tags = before.applied.tags \ {value}
            /\ pendingFilters.selectedTags = before.pending.selectedTags \ {value}
            /\ AppliedSameExcept({"tags"}) /\ PendingSameExcept({"selectedTags"})
      [] type = "subtag" ->
            /\ value \in before.applied.subtags
            /\ appliedFilters.subtags = before.applied.subtags \ {value}
            /\ pendingFilters.selectedSubtags = before.pending.selectedSubtags \ {value}
            /\ AppliedSameExcept({"subtags"}) /\ PendingSameExcept({"selectedSubtags"})
      [] type = "rating" ->
            /\ <<before.applied.ratingMin, before.applied.ratingMax>> # <<Num(0), Num(4000)>>
            /\ appliedFilters.ratingMin = Num(0) /\ appliedFilters.ratingMax = Num(4000)
            /\ pendingFilters.ratingMin = <<>> /\ pendingFilters.ratingMax = <<>>
            /\ AppliedSameExcept({"ratingMin", "ratingMax"})
            /\ PendingSameExcept({"ratingMin", "ratingMax"})

\* C24: removeAppliedFilter resets the one named field in the applied and in
\* the pending spec (search to empty, difficulty to all, rating to 0..4000
\* applied and empty pending inputs, a tag or subtag taken out of its set),
\* sets the page to 1 and leaves every other field of both specs as it was,
\* pending edits not yet applied included.
C24_RemoveResetsNamedFieldOnly ==
    last = "removeAppliedFilter" =>
        /\ currentPage = 1
        /\ \E type \in FilterTypes, value \in TagNames \cup SubtagNames :
              FilterRemoved(type, value)

\* C24 witness: the rating badge was removed on the second page of a result
\* filtered by rating; the page is 1 again and only the rating fields changed
C24_Witness ==
    /\ last = "removeAppliedFilter"
    /\ before.page = 2
    /\ currentPage = 1
    /\ before.applied.ratingMin = Num(1500)
    /\ before.pending.ratingMin = <<"1", "5", "0", "0">>
    /\ FilterRemoved("rating", "x")
    /\ pendingFilters.ratingMin = <<>>

\* the applied spec that the mount effect builds from localStorage
PersistedApplied == IF storage = NoItem THEN InitialApplied ELSE loadApplied(storage)

\* the stored record is one that loading and saving again leaves as it is,
\* which sets aside the records with a bound that the load replaces
RecordSurvivesLoad == storage = NoItem \/ savedFilters(loadApplied(storage)) = storage

\* C25 (as claimed): after mount the persisted filter record agrees with the
\* applied spec: loading it, or taking the defaults when there is none, gives
\* the current applied spec, after any apply, clear and removeAppliedFilter.
C25_PersistedRecordMatchesApplied ==
    (mounted /\ RecordSurvivesLoad) => PersistedApplied = appliedFilters

====
